---- MODULE Spec2Model ----
(***************************************************************************)
(* A model of rogue_view (src/src/main.rs): the obstruction grid, the      *)
(* angle utilities, the ray caster, the visibility evaluator and the       *)
(* interactive loop that mutates the observer.                             *)
(*                                                                         *)
(* Number representation.  The program computes in f64; the model keeps    *)
(* every quantity as an integer:                                           *)
(*   - angles are integers in units of 1/1000000 rad, with pi taken as     *)
(*     3.141600 rad so that pi/16 (the rotation step) and pi/8 (half the   *)
(*     initial field of view) are whole numbers of units; sums and         *)
(*     differences of angles are exact (no f64 rounding error);            *)
(*   - a radius is an integer number of halves (the program only adds and  *)
(*     subtracts 0.5 to 15.0);                                             *)
(*   - a continuous position is an integer number of 1/PosScale cells;     *)
(*   - inside cast_ray the current position is an exact rational with the  *)
(*     denominator max(xdiff, ydiff).  On grids of up to 6 x 6 cells the   *)
(*     f64 loop visits the same cells as the exact one (the only ties at   *)
(*     .5 come from halves and quarters, which f64 holds exactly).         *)
(***************************************************************************)
EXTENDS Integers, Sequences, FiniteSets, TLC

VARIABLES
    map,      \* the Map: [width, tiles]
    player,   \* the Player: [tile_pos, pos, angle, light]
    buffer,   \* the visibility buffer (Vec<bool>), 1-based: buffer[i + 1] is slot i
    pc,       \* where the modelled caller stands
    keys,     \* how many keys the interactive loop has read
    lines,    \* the text lines handed to Map::from_file
    args,     \* the arguments of the pure function under check
    ret,      \* its result
    written   \* the slots the parallel collect has filled so far

vars == <<map, player, buffer, pc, keys, lines, args, ret, written>>

(***************************************************************************)
(* Bounds of the model.                                                    *)
(***************************************************************************)
MaxDim == 4          \* largest grid width and height drawn as an input
MaxWalls == 1        \* most opaque tiles of an input grid
MaxKeys == 3         \* keys read by the interactive loop
MaxLines == 3        \* lines of a map text
MaxLineLen == 2      \* characters of a line of a map text
MaxRaySteps == 8     \* iterations of cast_ray's loop before it counts as diverged
ParCells == 6        \* most cells of a grid whose field is collected in parallel

(***************************************************************************)
(* Program constants.                                                      *)
(***************************************************************************)
Pi == 3141600                 \* consts::PI, in angle units
TwoPi == 2 * Pi
RotateStep == Pi \div 16      \* consts::PI / 16.0
WidthStep == 110000           \* 0.11
RadiusStep == 1               \* 0.5, in halves
InitialRadius == 30           \* 15.0, in halves
InitialWidth == Pi \div 4     \* consts::PI / 4.0
PosScale == 1000              \* resolution of a continuous coordinate

Abs(n) == IF n < 0 THEN -n ELSE n
Max(a, b) == IF a >= b THEN a ELSE b
Min(a, b) == IF a <= b THEN a ELSE b

(***************************************************************************)
(* Tile and Map.  Tile::Wall(c) is represented by its glyph c, Tile::Air   *)
(* by "Air".                                                               *)
(***************************************************************************)
Air == "Air"
Wall(c) == c
OutOfBounds == "index out of bounds"

obstructing(tile) == tile # Air

new(w, h) == [width |-> w, tiles |-> [i \in 1..(w * h) |-> Air]]

width(m) == m.width
height(m) == Len(m.tiles) \div m.width

\* &self.tiles[y * self.width + x]; an index past the end panics
at(m, x, y) ==
    LET index == y * m.width + x
    IN  IF index < Len(m.tiles) THEN m.tiles[index + 1] ELSE OutOfBounds

NoMap == [width |-> 0, tiles |-> <<>>]

\* The nested loops of from_file from line li, character i on; a write past
\* the end of tiles panics.
RECURSIVE from_file_fill(_, _, _, _)
from_file_fill(m, text, li, i) ==
    IF li >= Len(text) THEN [status |-> "ok", map |-> m]
    ELSE IF i >= Len(text[li + 1]) THEN from_file_fill(m, text, li + 1, 0)
    ELSE LET c == text[li + 1][i + 1]
             index == i + li * m.width
         IN  IF c = " " THEN from_file_fill(m, text, li, i + 1)
             ELSE IF index >= Len(m.tiles) THEN [status |-> "panic", map |-> NoMap]
             ELSE from_file_fill([m EXCEPT !.tiles[index + 1] = Wall(c)], text, li, i + 1)

\* Map::from_file on the lines of the file (the file itself is opened and read)
from_file(text) ==
    IF text = <<>> THEN [status |-> "panic", map |-> NoMap]
    ELSE from_file_fill(new(Len(text[1]), Len(text)), text, 0, 0)

(***************************************************************************)
(* Positions and the light.                                                *)
(***************************************************************************)
Pos(x, y) == [x |-> x, y |-> y]

\* the square of distance(a, b)
distance_sq(a, b) ==
    LET dx == a.x - b.x
        dy == a.y - b.y
    IN  dx * dx + dy * dy

\* distance(a, b) > radius, the radius in halves
distance_exceeds(a, b, radius) ==
    IF radius < 0 THEN TRUE ELSE 4 * distance_sq(a, b) > radius * radius

LightSpec(radius, w) == [some |-> TRUE, radius |-> radius, width |-> w]
NoLight == [some |-> FALSE, radius |-> 0, width |-> 0]

\* f64::round: to the nearest integer, halves away from zero, of n / d
round(n, d) ==
    IF n >= 0 THEN (2 * n + d) \div (2 * d) ELSE -((2 * (-n) + d) \div (2 * d))

\* `as u32` and `as usize` of a float: saturating
as_unsigned(n) == IF n < 0 THEN 0 ELSE n

to_tile_pos(pos) ==
    Pos(as_unsigned(round(pos.x, PosScale)), as_unsigned(round(pos.y, PosScale)))

new_with_light(pos, angle, light) ==
    [tile_pos |-> to_tile_pos(pos), pos |-> pos, angle |-> angle, light |-> light]

update_pos(p, pos) == [p EXCEPT !.tile_pos = to_tile_pos(pos), !.pos = pos]

NoPlayer == [tile_pos |-> Pos(0, 0), pos |-> Pos(0, 0), angle |-> 0, light |-> NoLight]

(***************************************************************************)
(* Angle utilities.                                                        *)
(***************************************************************************)
advance_angle(a, step) ==
    LET s == a + step
    IN  IF s > TwoPi THEN s - TwoPi ELSE s

reduce_angle(a, step) ==
    LET s == a - step
    IN  IF s < 0 THEN s + TwoPi ELSE s

\* is_angle_between with the boundaries taken in
is_angle_between_inclusive(a, left, right) ==
    IF right < left
    THEN (a <= right /\ a >= 0) \/ (a <= TwoPi /\ a >= left)
    ELSE left <= a /\ right >= a

is_angle_between(a, left, right) ==
    IF right < left
    THEN (a < right /\ a >= 0) \/ (a <= TwoPi /\ a > left)
    ELSE left < a /\ right > a

(***************************************************************************)
(* The ray caster.  The increments are the rationals xinc / den and        *)
(* yinc / den; the current position is (xcur / den, ycur / den).           *)
(***************************************************************************)
\* xmul, ymul: 1.0, 0.0 or -1.0 by the sign of the difference
cast_ray_mul(diff) == IF diff < 0 THEN 1 ELSE IF diff = 0 THEN 0 ELSE -1

\* cast_ray_inc with the shorter axis stepping a whole cell too
cast_ray_inc_unscaled(xdiff, ydiff, xmul, ymul) ==
    IF ydiff < xdiff THEN [xinc |-> xmul * xdiff, yinc |-> xdiff * ymul, den |-> xdiff]
    ELSE IF ydiff = xdiff THEN [xinc |-> xmul, yinc |-> ymul, den |-> 1]
    ELSE [xinc |-> ydiff * xmul, yinc |-> ymul * ydiff, den |-> ydiff]

cast_ray_inc(xdiff, ydiff, xmul, ymul) ==
    IF ydiff < xdiff THEN [xinc |-> xmul * xdiff, yinc |-> ydiff * ymul, den |-> xdiff]
    ELSE IF ydiff = xdiff THEN [xinc |-> xmul, yinc |-> ymul, den |-> 1]
    ELSE [xinc |-> xdiff * xmul, yinc |-> ymul * ydiff, den |-> ydiff]

\* the loop as a do-while: the tile is tested before the arrival is checked
RECURSIVE cast_ray_loop_test_first(_, _, _, _, _, _, _)
cast_ray_loop_test_first(xcur, ycur, inc, b, m, tested, fuel) ==
    LET cx == as_unsigned(round(xcur, inc.den))
        cy == as_unsigned(round(ycur, inc.den))
        nx == as_unsigned(round(xcur + inc.xinc, inc.den))
        ny == as_unsigned(round(ycur + inc.yinc, inc.den))
        tile == at(m, cx, cy)
        seen == Append(tested, Pos(cx, cy))
    IN  IF fuel = 0
        THEN [ret |-> FALSE, status |-> "diverged", tested |-> tested]
        ELSE IF tile = OutOfBounds
        THEN [ret |-> FALSE, status |-> "panic", tested |-> seen]
        ELSE IF obstructing(tile)
        THEN [ret |-> FALSE, status |-> "ok", tested |-> seen]
        ELSE IF nx = b.x /\ ny = b.y
        THEN [ret |-> TRUE, status |-> "ok", tested |-> seen]
        ELSE cast_ray_loop_test_first(xcur + inc.xinc, ycur + inc.yinc, inc, b, m,
                                      seen, fuel - 1)

\* The while loop: tested is the sequence of cells handed to map.at so far.
RECURSIVE cast_ray_loop(_, _, _, _, _, _, _)
cast_ray_loop(xcur, ycur, inc, b, m, tested, fuel) ==
    LET cx == as_unsigned(round(xcur, inc.den))
        cy == as_unsigned(round(ycur, inc.den))
    IN  IF cx = b.x /\ cy = b.y
        THEN [ret |-> TRUE, status |-> "ok", tested |-> tested]
        ELSE IF fuel = 0
        THEN [ret |-> FALSE, status |-> "diverged", tested |-> tested]
        ELSE LET tile == at(m, cx, cy)
                 seen == Append(tested, Pos(cx, cy))
             IN  IF tile = OutOfBounds
                 THEN [ret |-> FALSE, status |-> "panic", tested |-> seen]
                 ELSE IF obstructing(tile)
                 THEN [ret |-> FALSE, status |-> "ok", tested |-> seen]
                 ELSE cast_ray_loop(xcur + inc.xinc, ycur + inc.yinc, inc, b, m,
                                    seen, fuel - 1)

\* cast_ray with what it did: the value returned, whether it returned at all
\* ("ok"), and the cells it tested, in order
cast_ray_trace(a, b, m) ==
    LET xd == a.x - b.x
        yd == a.y - b.y
        inc == cast_ray_inc(Abs(xd), Abs(yd), cast_ray_mul(xd), cast_ray_mul(yd))
    IN  cast_ray_loop(a.x * inc.den, a.y * inc.den, inc, b, m, <<>>, MaxRaySteps)

cast_ray(a, b, m) == cast_ray_trace(a, b, m).ret

(***************************************************************************)
(* The field of view.                                                      *)
(***************************************************************************)
\* atan(k / 60) in angle units, for the slopes p / q with 0 <= p <= q <= 5
atan_table(k) ==
    CASE k = 0 -> 0
      [] k = 12 -> 197396
      [] k = 15 -> 244979
      [] k = 20 -> 321751
      [] k = 24 -> 380507
      [] k = 30 -> 463649
      [] k = 36 -> 540421
      [] k = 40 -> 588004
      [] k = 45 -> 643503
      [] k = 48 -> 674743
      [] k = 60 -> Pi \div 4

\* atan(p / q) for p, q >= 0, not both 0
atan_ratio(p, q) ==
    IF p <= q THEN atan_table((p * 60) \div q)
    ELSE Pi \div 2 - atan_table((q * 60) \div p)

\* f64::atan2 of two integers (never -0.0): in (-Pi, Pi]
atan2(dy, dx) ==
    IF dx = 0 /\ dy = 0 THEN 0
    ELSE LET t == atan_ratio(Abs(dy), Abs(dx))
         IN  IF dx >= 0 THEN (IF dy >= 0 THEN t ELSE -t)
             ELSE (IF dy >= 0 THEN Pi - t ELSE t - Pi)

is_within_fov(actor, point, light) ==
    LET dx == actor.tile_pos.x - point.x
        dy == point.y - actor.tile_pos.y
        atan == atan2(dy, dx) + Pi
        left == reduce_angle(actor.angle, light.width \div 2)
        right == advance_angle(actor.angle, light.width \div 2)
    IN  is_angle_between(atan, left, right)

(***************************************************************************)
(* The visibility evaluator.                                               *)
(***************************************************************************)
\* is_visible without the short-circuit for the observer's own cell
is_visible_no_self(m, actor, point) ==
    IF ~actor.light.some THEN FALSE
    ELSE IF distance_exceeds(point, actor.tile_pos, actor.light.radius) THEN FALSE
    ELSE IF ~is_within_fov(actor, point, actor.light) THEN FALSE
    ELSE IF ~cast_ray(actor.tile_pos, point, m) THEN FALSE
    ELSE TRUE

\* is_visible without the ray cast
is_visible_no_ray(m, actor, point) ==
    IF actor.tile_pos = point THEN TRUE
    ELSE IF ~actor.light.some THEN FALSE
    ELSE IF distance_exceeds(point, actor.tile_pos, actor.light.radius) THEN FALSE
    ELSE IF ~is_within_fov(actor, point, actor.light) THEN FALSE
    ELSE TRUE

is_visible(m, actor, point) ==
    IF actor.tile_pos = point THEN TRUE
    ELSE IF ~actor.light.some THEN FALSE
    ELSE IF distance_exceeds(point, actor.tile_pos, actor.light.radius) THEN FALSE
    ELSE IF ~is_within_fov(actor, point, actor.light) THEN FALSE
    ELSE IF ~cast_ray(actor.tile_pos, point, m) THEN FALSE
    ELSE TRUE

\* the closure with the row taken for the column
visibility_of_index_swapped(m, actor, index) ==
    LET x == index \div width(m)
        y == index - x * width(m)
    IN  IF actor.tile_pos.x = x /\ actor.tile_pos.y = y THEN TRUE
        ELSE is_visible(m, actor, Pos(x, y))

\* the closure of calculate_visibility's map(): the value of slot index
visibility_of_index(m, actor, index) ==
    LET y == index \div width(m)
        x == index - y * width(m)
    IN  IF actor.tile_pos.x = x /\ actor.tile_pos.y = y THEN TRUE
        ELSE is_visible(m, actor, Pos(x, y))

\* calculate_visibility as a whole: the buffer it leaves
calculate_visibility(m, actor) ==
    [i \in 1..Len(m.tiles) |-> visibility_of_index(m, actor, i - 1)]

(***************************************************************************)
(* Input grids and observers for the specifications that call one          *)
(* function with arguments drawn from bounded sets.                        *)
(***************************************************************************)
\* the sets of at most k tile indices below n
RECURSIVE IndexSets(_, _)
IndexSets(n, k) ==
    IF k = 0 THEN {{}}
    ELSE LET smaller == IndexSets(n, k - 1)
         IN  smaller \cup { s \cup {i} : s \in smaller, i \in 0..(n - 1) }

\* a Map of w x h tiles, Wall('#') at the indices of walls and Air elsewhere
Grid(w, h, walls) ==
    [width |-> w, tiles |-> [i \in 1..(w * h) |-> IF (i - 1) \in walls THEN Wall("#") ELSE Air]]

Grids(dims, k) ==
    UNION { { Grid(w, h, walls) : walls \in IndexSets(w * h, k) } : w \in dims, h \in dims }

\* the cell of tile index i, and the tile index of a cell
CellOf(m, index) == Pos(index % width(m), index \div width(m))
IndexOf(m, cell) == cell.y * width(m) + cell.x
Cells(m) == { CellOf(m, i) : i \in 0..(Len(m.tiles) - 1) }

IsOpen(m) == \A i \in 1..Len(m.tiles) : ~obstructing(m.tiles[i])

\* an observer standing on cell
ObserverAt(cell, angle, light) ==
    new_with_light(Pos(cell.x * PosScale, cell.y * PosScale), angle, light)

(***************************************************************************)
(* is_angle_between on its own: the three arguments are drawn from sample  *)
(* angles (eighth turns from one below 0 to one above 2 pi, and the        *)
(* values of the unit tests), then the function is applied.                *)
(***************************************************************************)
MaxOver == 1         \* eighth turns sampled below 0 and above 2 pi
Rad == 1000000       \* one radian, in angle units

\* the rows of tests::between: a, left, right => expected
BetweenTests ==
    { [a |-> 5 * Rad, left |-> 4 * Rad, right |-> 6 * Rad, expect |-> TRUE],
      [a |-> 5 * Rad, left |-> 6 * Rad, right |-> 7 * Rad, expect |-> FALSE],
      [a |-> 5 * Rad, left |-> 3 * Rad, right |-> 4 * Rad, expect |-> FALSE],
      [a |-> 0, left |-> 1 * Rad, right |-> 2 * Rad, expect |-> FALSE],
      [a |-> 0, left |-> -2 * Rad, right |-> -1 * Rad, expect |-> FALSE],
      [a |-> 0, left |-> -1 * Rad, right |-> 1 * Rad, expect |-> TRUE],
      [a |-> 1 * Rad, left |-> 0, right |-> 2 * Rad, expect |-> TRUE],
      [a |-> -1 * Rad, left |-> -2 * Rad, right |-> 0, expect |-> TRUE],
      [a |-> 6280000, left |-> 6180000, right |-> 100000, expect |-> TRUE] }

BetweenSamples ==
    { k * (Pi \div 4) : k \in (0 - MaxOver)..(8 + MaxOver) }
        \cup { t.a : t \in BetweenTests }
        \cup { t.left : t \in BetweenTests }
        \cup { t.right : t \in BetweenTests }

BetweenInit ==
    /\ args \in [a : BetweenSamples, left : BetweenSamples, right : BetweenSamples]
    /\ ret = FALSE
    /\ pc = "call"
    /\ map = NoMap /\ player = NoPlayer /\ buffer = <<>> /\ keys = 0
    /\ lines = <<>> /\ written = {}

BetweenCall ==
    /\ pc = "call"
    /\ ret' = is_angle_between(args.a, args.left, args.right)
    /\ pc' = "done"
    /\ UNCHANGED <<map, player, buffer, keys, lines, args, written>>

SpecBetween == BetweenInit /\ [][BetweenCall]_vars

(***************************************************************************)
(* Rotation on its own: an observer with any facing angle in [0, 2 pi)     *)
(* that is a whole number of eighth turns is rotated, any number of times, *)
(* forwards by one step and backwards by another, each of 0 to MaxStep     *)
(* eighth turns.  Multiples of pi / 4 up to 10 pi / 4 are exact in f64,    *)
(* and so are the sums and differences taken here: on these inputs the     *)
(* integer arithmetic is the program's.                                    *)
(***************************************************************************)
MaxStep == 3         \* largest rotation step, in eighth turns

EighthTurns == { k * (Pi \div 4) : k \in 0..7 }
RotateSteps == { k * (Pi \div 4) : k \in 0..MaxStep }

RotateInit ==
    /\ \E angle \in EighthTurns :
           player = new_with_light(Pos(0, 0), angle, LightSpec(InitialRadius, InitialWidth))
    /\ args \in [advance : RotateSteps, reduce : RotateSteps]
    /\ pc = "rotate"
    /\ map = NoMap /\ buffer = <<>> /\ keys = 0 /\ lines = <<>> /\ ret = FALSE
    /\ written = {}

\* player.angle = advance_angle(player.angle, step)
RotateAdvance ==
    /\ pc = "rotate"
    /\ player' = [player EXCEPT !.angle = advance_angle(player.angle, args.advance)]
    /\ UNCHANGED <<map, buffer, pc, keys, lines, args, ret, written>>

\* player.angle = reduce_angle(player.angle, step)
RotateReduce ==
    /\ pc = "rotate"
    /\ player' = [player EXCEPT !.angle = reduce_angle(player.angle, args.reduce)]
    /\ UNCHANGED <<map, buffer, pc, keys, lines, args, ret, written>>

RotateNext == RotateAdvance \/ RotateReduce

SpecRotate == RotateInit /\ [][RotateNext]_vars

(***************************************************************************)
(* Map::from_file on its own: any text of up to MaxLines lines of up to    *)
(* MaxLineLen characters, blank or '#', is loaded.                         *)
(***************************************************************************)
Chars == {" ", "#"}
Lines == UNION { [1..n -> Chars] : n \in 0..MaxLineLen }
Texts == UNION { [1..n -> Lines] : n \in 0..MaxLines }

LoadInit ==
    /\ lines \in Texts
    /\ pc = "load"
    /\ map = NoMap
    /\ ret = "none"
    /\ player = NoPlayer /\ buffer = <<>> /\ keys = 0 /\ args = <<>> /\ written = {}

\* let map = Map::from_file(..): the map, or the panic that ends the program
Load ==
    /\ pc = "load"
    /\ LET r == from_file(lines)
       IN  /\ map' = r.map
           /\ ret' = r.status
    /\ pc' = "loaded"
    /\ UNCHANGED <<player, buffer, keys, lines, args, written>>

SpecLoad == LoadInit /\ [][Load]_vars

(***************************************************************************)
(* The interactive loop of main.  Each turn of the loop computes the       *)
(* field (Frame), then reads one key and runs its match arm (Key...).      *)
(* The observer is kept inside the grid: a key that would move its cell    *)
(* off the grid is not pressed.                                            *)
(***************************************************************************)
\* the map files the loop is run on
MainTexts ==
    { << <<" ", " ", " ", " ", " ">>,
         <<" ", "#", " ", "#", " ">>,
         <<" ", " ", " ", " ", " ">> >>,
      << <<" ", " ", " ", " ">>,
         <<" ", " ", "#", " ">>,
         <<" ", " ", " ", " ">>,
         <<"#", " ", " ", " ">> >> }

\* 1000 * cos(k * pi / 16) for the first quarter turn
cos_table(k) ==
    CASE k = 0 -> 1000
      [] k = 1 -> 981
      [] k = 2 -> 924
      [] k = 3 -> 831
      [] k = 4 -> 707
      [] k = 5 -> 556
      [] k = 6 -> 383
      [] k = 7 -> 195
      [] k = 8 -> 0

\* f64::cos of a whole number of sixteenth turns, times PosScale
cos(angle) ==
    LET k == (angle \div RotateStep) % 32
    IN  IF k <= 8 THEN cos_table(k)
        ELSE IF k <= 16 THEN -cos_table(16 - k)
        ELSE IF k <= 24 THEN -cos_table(k - 16)
        ELSE cos_table(32 - k)

\* f64::sin of a whole number of sixteenth turns, times PosScale
sin(angle) == cos(angle + 24 * RotateStep)

InGrid(m, cell) ==
    /\ 0 <= cell.x /\ cell.x < width(m)
    /\ 0 <= cell.y /\ cell.y < height(m)

Init ==
    /\ \E text \in MainTexts : map = from_file(text).map
    /\ player = new_with_light(Pos((width(map) * PosScale) \div 2,
                                   (height(map) * PosScale) \div 2),
                               Pi, LightSpec(InitialRadius, InitialWidth))
    /\ buffer = [i \in 1..(width(map) * height(map)) |-> FALSE]
    /\ pc = "frame"
    /\ keys = 0
    /\ lines = <<>> /\ args = <<>> /\ ret = FALSE /\ written = {}

\* calculate_visibility and print_map, which calculates once more
Frame ==
    /\ pc = "frame"
    /\ buffer' = calculate_visibility(map, player)
    /\ pc' = "key"
    /\ UNCHANGED <<map, player, keys, lines, args, ret, written>>

\* get_key has returned: the arm that follows sets the observer to p
KeyPressed(p) ==
    /\ pc = "key"
    /\ keys < MaxKeys
    /\ InGrid(map, p.tile_pos)
    /\ player' = p
    /\ keys' = keys + 1
    /\ pc' = "frame"
    /\ UNCHANGED <<map, buffer, lines, args, ret, written>>

KeyEsc ==
    /\ pc = "key"
    /\ pc' = "exit"
    /\ UNCHANGED <<map, player, buffer, keys, lines, args, ret, written>>

KeyLeft == KeyPressed([player EXCEPT !.tile_pos.x = @ - 1])
KeyRight == KeyPressed([player EXCEPT !.tile_pos.x = @ + 1])
KeyUp == KeyPressed([player EXCEPT !.tile_pos.y = @ - 1])
KeyDown == KeyPressed([player EXCEPT !.tile_pos.y = @ + 1])

\* the arms that take the light out, change it and put it back
WithLight(p, radius_by, width_by) ==
    IF p.light.some
    THEN [p EXCEPT !.light.radius = @ + radius_by, !.light.width = @ + width_by]
    ELSE p

KeyPageUp == KeyPressed(WithLight(player, RadiusStep, 0))
KeyPageDown == KeyPressed(WithLight(player, 0 - RadiusStep, 0))
KeyInsert == KeyPressed(WithLight(player, 0, WidthStep))
KeyDelete == KeyPressed(WithLight(player, 0, 0 - WidthStep))

KeyHome == KeyPressed([player EXCEPT !.angle = advance_angle(@, RotateStep)])
KeyEnd == KeyPressed([player EXCEPT !.angle = reduce_angle(@, RotateStep)])

KeyW ==
    KeyPressed(update_pos(player, Pos(player.pos.x + cos(player.angle),
                                      player.pos.y - sin(player.angle))))
KeyS ==
    KeyPressed(update_pos(player, Pos(player.pos.x - cos(player.angle),
                                      player.pos.y + sin(player.angle))))

\* any other key
KeyOther == KeyPressed(player)

Next ==
    \/ Frame
    \/ KeyEsc
    \/ KeyLeft
    \/ KeyRight
    \/ KeyUp
    \/ KeyDown
    \/ KeyPageUp
    \/ KeyPageDown
    \/ KeyHome
    \/ KeyEnd
    \/ KeyInsert
    \/ KeyDelete
    \/ KeyW
    \/ KeyS
    \/ KeyOther

Spec == Init /\ [][Next]_vars

(***************************************************************************)
(* cast_ray on its own: any grid of up to MaxDim x MaxDim tiles with up to *)
(* MaxWalls walls, and any two of its cells.                               *)
(***************************************************************************)
RayInit ==
    /\ map \in Grids(1..MaxDim, MaxWalls)
    /\ args \in [a : Cells(map), b : Cells(map)]
    /\ pc = "call"
    /\ ret = [ret |-> FALSE, status |-> "none", tested |-> <<>>]
    /\ player = NoPlayer /\ buffer = <<>> /\ keys = 0 /\ lines = <<>> /\ written = {}

RayCall ==
    /\ pc = "call"
    /\ ret' = cast_ray_trace(args.a, args.b, map)
    /\ pc' = "done"
    /\ UNCHANGED <<map, player, buffer, keys, lines, args, written>>

SpecRay == RayInit /\ [][RayCall]_vars

(***************************************************************************)
(* calculate_visibility called once, sequentially, for any grid and any    *)
(* observer standing on one of its cells: with no light, or with a light   *)
(* of radius -0.5, 0 or 15 and width pi / 4 or 2 pi, facing any quarter    *)
(* turn.                                                                   *)
(***************************************************************************)
VisAngles == { k * (Pi \div 2) : k \in 0..3 }
VisLights ==
    { NoLight,
      LightSpec(0 - RadiusStep, InitialWidth),
      LightSpec(0, InitialWidth),
      LightSpec(InitialRadius, InitialWidth),
      LightSpec(InitialRadius, TwoPi) }

VisInit ==
    /\ map \in Grids(1..MaxDim, MaxWalls)
    /\ \E cell \in Cells(map), angle \in VisAngles, light \in VisLights :
           player = ObserverAt(cell, angle, light)
    /\ buffer = [i \in 1..Len(map.tiles) |-> FALSE]
    /\ pc = "call"
    /\ keys = 0 /\ lines = <<>> /\ args = <<>> /\ ret = FALSE /\ written = {}

VisCall ==
    /\ pc = "call"
    /\ buffer' = calculate_visibility(map, player)
    /\ pc' = "done"
    /\ UNCHANGED <<map, player, keys, lines, args, ret, written>>

SpecVis == VisInit /\ [][VisCall]_vars

(***************************************************************************)
(* The same call on the square grids of BlockDim x BlockDim tiles, for the *)
(* effect of one more opaque tile on what the observer sees.               *)
(***************************************************************************)
BlockDim == 4        \* side of the grids an obstruction is placed on

BlockAngles == {0, Pi \div 4, Pi}
BlockLights ==
    { LightSpec(InitialRadius, TwoPi - 2 * RotateStep),
      LightSpec(5 * RadiusStep, Pi) }

BlockInit ==
    /\ map \in Grids({BlockDim}, MaxWalls)
    /\ \E cell \in Cells(map), angle \in BlockAngles, light \in BlockLights :
           player = ObserverAt(cell, angle, light)
    /\ buffer = [i \in 1..Len(map.tiles) |-> FALSE]
    /\ pc = "call"
    /\ keys = 0 /\ lines = <<>> /\ args = <<>> /\ ret = FALSE /\ written = {}

SpecBlock == BlockInit /\ [][VisCall]_vars

(***************************************************************************)
(* The end-to-end scenario: a 5 x 5 grid, open or with one wall at (2, 3), *)
(* the observer at (2, 2) with radius 10 and a field of view 2 pi wide,    *)
(* facing any sixteenth turn in [0, 2 pi).                                 *)
(***************************************************************************)
ScenarioGrids == { new(5, 5), Grid(5, 5, {3 * 5 + 2}) }
ScenarioAngles == { k * RotateStep : k \in 0..31 }

ScenarioInit ==
    /\ map \in ScenarioGrids
    /\ \E angle \in ScenarioAngles :
           player = ObserverAt(Pos(2, 2), angle, LightSpec(20 * RadiusStep, TwoPi))
    /\ buffer = [i \in 1..Len(map.tiles) |-> FALSE]
    /\ pc = "call"
    /\ keys = 0 /\ lines = <<>> /\ args = <<>> /\ ret = FALSE /\ written = {}

SpecScenario == ScenarioInit /\ [][VisCall]_vars

(***************************************************************************)
(* calculate_visibility with its parallel iterator: the caller calls it    *)
(* twice in a row on the same buffer.  Within a call the workers evaluate  *)
(* the closure for the tile indices in any order, each writing its own     *)
(* slot of the collect target; the call returns when every slot is         *)
(* written.  The buffer starts all false or all true.                      *)
(***************************************************************************)
MaxCalls == 2        \* successive calls of calculate_visibility

ParDims == { d \in (1..ParCells) \X (1..ParCells) : d[1] * d[2] <= ParCells }
ParGrids ==
    UNION { { Grid(d[1], d[2], walls) : walls \in IndexSets(d[1] * d[2], MaxWalls) } :
            d \in ParDims }
ParLights == { NoLight, LightSpec(InitialRadius, TwoPi - 2 * RotateStep) }

ParInit ==
    /\ map \in ParGrids
    /\ \E cell \in Cells(map), light \in ParLights : player = ObserverAt(cell, Pi, light)
    /\ \E fill \in BOOLEAN : buffer = [i \in 1..Len(map.tiles) |-> fill]
    /\ args = [map |-> map, actor |-> player, buffer |-> buffer]
    /\ pc = "idle"
    /\ keys = 0
    /\ written = {}
    /\ ret = <<>>
    /\ lines = <<>>

\* calculate_visibility is entered: collect_into_vec starts with an empty target
ParCallBegin ==
    /\ pc \in {"idle", "returned"}
    /\ keys < MaxCalls
    /\ pc' = "collect"
    /\ written' = {}
    /\ UNCHANGED <<map, player, buffer, keys, lines, args, ret>>

\* one worker evaluates the closure for one index and writes that slot
ParWorker ==
    /\ pc = "collect"
    /\ \E index \in (0..(Len(map.tiles) - 1)) \ written :
           /\ buffer' = [buffer EXCEPT ![index + 1] = visibility_of_index(map, player, index)]
           /\ written' = written \cup {index}
    /\ UNCHANGED <<map, player, pc, keys, lines, args, ret>>

\* every slot is written: the call returns
ParCallEnd ==
    /\ pc = "collect"
    /\ written = 0..(Len(map.tiles) - 1)
    /\ pc' = "returned"
    /\ keys' = keys + 1
    /\ ret' = IF keys = 0 THEN buffer ELSE ret
    /\ UNCHANGED <<map, player, buffer, lines, args, written>>

ParNext == ParCallBegin \/ ParWorker \/ ParCallEnd

SpecPar == ParInit /\ [][ParNext]_vars

(***************************************************************************)
(* The claims.                                                             *)
(***************************************************************************)

\* C1: is_angle_between follows the two-branch contract on every input: for
\* left <= right it is true iff left < angle < right; for right < left it is
\* true iff (angle < right and angle >= 0) or (angle > left and angle <= 2 pi);
\* and it gives the value each row of tests::between expects.
BetweenContract ==
    pc = "done" =>
        /\ args.left <= args.right
               => (ret <=> (args.left < args.a /\ args.a < args.right))
        /\ args.right < args.left
               => (ret <=> \/ (args.a < args.right /\ args.a >= 0)
                           \/ (args.a > args.left /\ args.a <= TwoPi))
        /\ \A t \in BetweenTests :
               (t.a = args.a /\ t.left = args.left /\ t.right = args.right)
                   => ret = t.expect

\* an angle past the left edge of an arc that crosses the seam is found inside
BetweenSeamWitness ==
    /\ pc = "done"
    /\ args.right < args.left
    /\ args.a > args.left
    /\ args.a <= TwoPi
    /\ ret = TRUE

\* C2: the observer's own cell is visible unconditionally (no light, radius 0
\* or negative, any facing angle and width, own cell opaque), and
\* calculate_visibility leaves true in the slot of the observer's cell.
SelfVisible ==
    /\ is_visible(map, player, player.tile_pos)
    /\ pc = "done" => buffer[IndexOf(map, player.tile_pos) + 1] = TRUE

\* an observer without light standing on a wall, its own slot written true
SelfVisibleWitness ==
    /\ pc = "done"
    /\ ~player.light.some
    /\ obstructing(at(map, player.tile_pos.x, player.tile_pos.y))
    /\ buffer[IndexOf(map, player.tile_pos) + 1] = TRUE
    /\ \E i \in 1..Len(buffer) : ~buffer[i]

\* C3: on the open 5 x 5 grid the observer at (2, 2) with radius 10 and a
\* field of view 2 pi wide sees all 25 cells, whatever its facing angle.
FullCircleSeesAll ==
    (pc = "done" /\ IsOpen(map)) => \A i \in 1..Len(buffer) : buffer[i]

\* m with the tile of cell turned into a wall
Obstructed(m, cell) == [m EXCEPT !.tiles[IndexOf(m, cell) + 1] = Wall("#")]

\* whether the field in buffer holds the cell visible
Seen(m, cell) == buffer[IndexOf(m, cell) + 1]

\* C4: for a visible target t, turning opaque any cell that lies strictly
\* between the observer and t on the ray's rounded path makes t not visible,
\* and every cell of the path before that cell that was visible stays visible.
ObstructionBlocks ==
    pc = "done" =>
        \A t \in Cells(map) :
            Seen(map, t) =>
                LET path == cast_ray_trace(player.tile_pos, t, map).tested
                IN  \A j \in 2..Len(path) :
                        LET blocked == Obstructed(map, path[j])
                        IN  /\ ~is_visible(blocked, player, t)
                            /\ \A i \in 1..(j - 1) :
                                   Seen(map, path[i]) => is_visible(blocked, player, path[i])

\* a visible target three steps or more away on a grid that has a wall: there
\* are a cell to block and a visible cell of the path before it
ObstructionWitness ==
    /\ pc = "done"
    /\ ~IsOpen(map)
    /\ \E t \in Cells(map) :
           /\ Seen(map, t)
           /\ Len(cast_ray_trace(player.tile_pos, t, map).tested) >= 3
           /\ Abs(t.x - player.tile_pos.x) # Abs(t.y - player.tile_pos.y)
           /\ t.x # player.tile_pos.x
           /\ t.y # player.tile_pos.y

\* C5: the facing angle stays in [0, 2 pi) under any sequence of rotations.
FacingAngleNormalized == 0 <= player.angle /\ player.angle < TwoPi

\* C6: in every state the interactive loop reaches, the observer's cell is its
\* continuous position rounded.
CellFollowsPosition == player.tile_pos = to_tile_pos(player.pos)

\* C7: on a grid with no opaque tile, cast_ray(A, B) and cast_ray(B, A) both
\* return, and both return true, for any two cells A and B (A = B included).
RaySymmetricOnOpenGrid ==
    (pc = "done" /\ IsOpen(map)) =>
        LET back == cast_ray_trace(args.b, args.a, map)
        IN  /\ ret.status = "ok" /\ ret.ret
            /\ back.status = "ok" /\ back.ret

\* a ray on an open grid along a slope that is neither an axis nor a diagonal
RaySymmetricWitness ==
    /\ pc = "done"
    /\ IsOpen(map)
    /\ ret.ret
    /\ Abs(args.a.x - args.b.x) >= 3
    /\ Abs(args.a.y - args.b.y) = 2
    /\ Len(ret.tested) = 3

\* C8: when calculate_visibility has returned, slot i of the buffer holds
\* is_visible of cell (i mod W, i div W) for every i below W * H, the buffer is
\* W * H long, grid and observer are as they were passed, whatever the buffer
\* held and in whatever order the workers wrote; a second call leaves the same
\* buffer as the first.
FieldIsPerCellMap ==
    pc = "returned" =>
        /\ Len(buffer) = width(map) * height(map)
        /\ \A i \in 0..(Len(buffer) - 1) :
               buffer[i + 1]
                   = is_visible(map, player, Pos(i % width(map), i \div width(map)))
        /\ map = args.map
        /\ player = args.actor
        /\ keys = MaxCalls => buffer = ret

\* the last call has returned over a buffer that started all true, on a grid
\* of more than one row and column, and the field has cells of both kinds
FieldWitness ==
    /\ pc = "returned"
    /\ keys = MaxCalls
    /\ width(map) > 1 /\ height(map) > 1 /\ width(map) # height(map)
    /\ \A i \in 1..Len(args.buffer) : args.buffer[i]
    /\ \E i \in 1..Len(buffer) : ~buffer[i]
    /\ \E i \in 1..Len(buffer) : buffer[i] /\ CellOf(map, i - 1) # player.tile_pos

\* C9: a text in which some line's length differs from the first line's is
\* refused: loading ends in an error and yields no grid.
RaggedTextRejected ==
    (pc = "loaded" /\ \E i \in 1..Len(lines) : Len(lines[i]) # Len(lines[1]))
        => (ret = "panic" /\ map = NoMap)

\* C10: for from and to inside the grid, every cell cast_ray tests lies in the
\* rectangle spanned by from and to, hence in the grid: no tile is read out of
\* bounds, and the to cell itself is never tested.
RayStaysInBounds ==
    pc = "done" =>
        /\ ret.status # "panic"
        /\ \A i \in 1..Len(ret.tested) :
               LET c == ret.tested[i]
               IN  /\ Min(args.a.x, args.b.x) <= c.x /\ c.x <= Max(args.a.x, args.b.x)
                   /\ Min(args.a.y, args.b.y) <= c.y /\ c.y <= Max(args.a.y, args.b.y)
                   /\ InGrid(map, c)
                   /\ c # args.b

\* a ray that tested three cells or more before a wall stopped it
RayBoundsWitness ==
    /\ pc = "done"
    /\ ret.status = "ok"
    /\ ~ret.ret
    /\ Len(ret.tested) >= 3
    /\ args.a.x # args.b.x
    /\ args.a.y # args.b.y

====
